---------------------------- MODULE Spec2Model ----------------------------
(***************************************************************************)
(* Verification model of the nuclei-segmentation repository.               *)
(*                                                                         *)
(*  - main.py: the command line program (argument parsing, configuration,  *)
(*    checkpoint restore, dispatch) and the functions train(), val() and   *)
(*    test().  Specification: Spec.                                        *)
(*  - models/UNet.py: the shape arithmetic of UNet.forward and of the      *)
(*    blocks it is built from.  Specification: SpecNet.                    *)
(*                                                                         *)
(* Losses are floating point numbers in the program; only their order      *)
(* matters to the loop, so a loss is modelled as a rational <<num, den>>   *)
(* (val() returns the sum of the minibatch losses divided by the number of *)
(* minibatches).                                                           *)
(***************************************************************************)
EXTENDS Integers, Sequences, FiniteSets, TLC

(***************************************************************************)
(* Bounds of the model.                                                    *)
(***************************************************************************)
MaxEpochs == 3      \* cfg.n_epochs and the resume epoch range over 0..MaxEpochs
MaxValFreq == 2     \* cfg.val_freq ranges over 1..MaxValFreq
MaxBatches == 2     \* len(train_loader), len(val_loader) range over 1..MaxBatches
MaxLoss == 2        \* a minibatch loss ranges over 1..MaxLoss
MaxSide == 204      \* height and width of the input image range over 1..MaxSide

(***************************************************************************)
(* Program constants.                                                      *)
(***************************************************************************)
DefaultMinValLoss == 1000   \* default of train()'s min_val_loss parameter

VARIABLES
    pc,                 \* position of the program in main.py
    argv_load,          \* TRUE iff --load was given on the command line
    args,               \* the parsed arguments: [load, phase]
    cfg,                \* the config module: n_epochs, val_freq, resume_from_epoch, min_val_loss
    len_train,          \* len(dl.train_loader)
    len_val,            \* len(dl.val_loader)
    checkpoint,         \* content of the file cfg.model_path (NoFile if absent)
    ckpt_reads,         \* number of torch.load calls made
    model,              \* [origin, updates, mode]: the parameters and the mode
    optimizer,          \* [origin, updates]: the optimizer state
    grad_enabled,       \* torch's global gradient mode
    resume_from_epoch,  \* __main__'s resume_from_epoch, then train()'s parameter
    min_val_loss,       \* __main__'s min_val_loss, then train()'s local
    min_val_loss0,      \* the value of min_val_loss on entry to train()
    epoch,              \* train()'s loop variable
    steps,              \* minibatches of the current epoch already trained
    val_sum,            \* val()'s running val_loss
    vsteps,             \* minibatches of the current validation pass already seen
    val_loss,           \* the value val() returned
    log,                \* the operations performed so far, in order
    net                 \* state of one call of UNet.forward (see SpecNet)

progVars == <<pc, argv_load, args, cfg, len_train, len_val, checkpoint, ckpt_reads,
              model, optimizer, grad_enabled, resume_from_epoch, min_val_loss,
              min_val_loss0, epoch, steps, val_sum, vsteps, val_loss, log>>

vars == <<progVars, net>>

(***************************************************************************)
(* Rationals, for losses.                                                  *)
(***************************************************************************)
Rat(n) == <<n, 1>>

RatLess(a, b) == a[1] * b[2] < b[1] * a[2]

RatEq(a, b) == a[1] * b[2] = b[1] * a[2]

RatLeq(a, b) == RatLess(a, b) \/ RatEq(a, b)

NoFile == [exists |-> FALSE]

NoLoss == <<0, 0>>

BatchLosses == 1..MaxLoss

\* Values a checkpoint file may hold under 'val_loss': below every validation
\* loss of the model, among them, and above them all.
CheckpointLosses == {Rat(0), Rat(MaxLoss), Rat(DefaultMinValLoss)}

Phases == {"train", "test", "other"}

\* One entry of the log.
Event(op, e, loss) ==
    [op |-> op, epoch |-> e, loss |-> loss, mode |-> model.mode,
     grad |-> grad_enabled, params |-> model.updates, opt |-> optimizer.updates]

NetIdle == [pc |-> "idle"]

(***************************************************************************)
(* __main__ (main.py 111-153)                                              *)
(***************************************************************************)

\* The value parse_args gives args.load: the action is store_true, and
\* set_defaults(load=True) makes True the value when the flag is absent too.
ParsedLoad(given) == IF given THEN TRUE ELSE TRUE

ParseArgs ==
    /\ pc = "start"
    /\ \E given \in BOOLEAN, phase \in Phases :
          /\ argv_load' = given
          /\ args' = [load |-> ParsedLoad(given), phase |-> phase]
    /\ pc' = "config"
    /\ UNCHANGED <<cfg, len_train, len_val, checkpoint, ckpt_reads, model, optimizer,
                   grad_enabled, resume_from_epoch, min_val_loss, min_val_loss0,
                   epoch, steps, val_sum, vsteps, val_loss, log, net>>

LoadConfig ==
    /\ pc = "config"
    /\ model' = [origin |-> "arch", updates |-> 0, mode |-> "train"]
    /\ optimizer' = [origin |-> "arch", updates |-> 0]
    /\ resume_from_epoch' = cfg.resume_from_epoch
    /\ min_val_loss' = cfg.min_val_loss
    /\ pc' = "restore"
    /\ UNCHANGED <<argv_load, args, cfg, len_train, len_val, checkpoint, ckpt_reads,
                   grad_enabled, min_val_loss0, epoch, steps, val_sum, vsteps,
                   val_loss, log, net>>

LoadCheckpoint ==
    /\ pc = "restore"
    /\ IF args.load
         THEN /\ ckpt_reads' = ckpt_reads + 1
              /\ IF checkpoint.exists
                   THEN /\ model' = [model EXCEPT !.origin = "checkpoint"]
                        /\ optimizer' = [optimizer EXCEPT !.origin = "checkpoint"]
                        /\ resume_from_epoch' = checkpoint.epoch
                        /\ min_val_loss' = checkpoint.val_loss
                        /\ pc' = "dispatch"
                   ELSE /\ pc' = "raised"      \* torch.load raises
                        /\ UNCHANGED <<model, optimizer, resume_from_epoch, min_val_loss>>
         ELSE /\ pc' = "dispatch"
              /\ UNCHANGED <<ckpt_reads, model, optimizer, resume_from_epoch, min_val_loss>>
    /\ UNCHANGED <<argv_load, args, cfg, len_train, len_val, checkpoint, grad_enabled,
                   min_val_loss0, epoch, steps, val_sum, vsteps, val_loss, log, net>>

Dispatch ==
    /\ pc = "dispatch"
    /\ pc' = CASE args.phase = "train" -> "train"
               [] args.phase = "test"  -> "test"
               [] OTHER                -> "raised"   \* ValueError
    /\ min_val_loss0' = min_val_loss
    /\ UNCHANGED <<argv_load, args, cfg, len_train, len_val, checkpoint, ckpt_reads,
                   model, optimizer, grad_enabled, resume_from_epoch, min_val_loss,
                   epoch, steps, val_sum, vsteps, val_loss, log, net>>

(***************************************************************************)
(* train (main.py 19-63)                                                   *)
(***************************************************************************)

TrainEnter ==
    /\ pc = "train"
    /\ model' = [model EXCEPT !.mode = "train"]
    /\ epoch' = resume_from_epoch
    /\ pc' = "for_epoch"
    /\ UNCHANGED <<argv_load, args, cfg, len_train, len_val, checkpoint, ckpt_reads,
                   optimizer, grad_enabled, resume_from_epoch, min_val_loss,
                   min_val_loss0, steps, val_sum, vsteps, val_loss, log, net>>

\* for epoch in range(resume_from_epoch, cfg.n_epochs): ... else: ...
ForEpoch_no_else ==
    /\ pc = "for_epoch"
    /\ IF epoch < cfg.n_epochs
         THEN /\ steps' = 0
              /\ pc' = "for_steps"
         ELSE /\ pc' = IF epoch = resume_from_epoch THEN "done" ELSE "for_else"
              /\ UNCHANGED steps
    /\ UNCHANGED <<argv_load, args, cfg, len_train, len_val, checkpoint, ckpt_reads,
                   model, optimizer, grad_enabled, resume_from_epoch, min_val_loss,
                   min_val_loss0, epoch, val_sum, vsteps, val_loss, log, net>>

ForEpoch ==
    /\ pc = "for_epoch"
    /\ IF epoch < cfg.n_epochs
         THEN /\ steps' = 0
              /\ pc' = "for_steps"
         ELSE /\ pc' = "for_else"
              /\ UNCHANGED steps
    /\ UNCHANGED <<argv_load, args, cfg, len_train, len_val, checkpoint, ckpt_reads,
                   model, optimizer, grad_enabled, resume_from_epoch, min_val_loss,
                   min_val_loss0, epoch, val_sum, vsteps, val_loss, log, net>>

\* One minibatch: forward, zero_grad, backward, optimizer.step.
TrainStep ==
    /\ pc = "for_steps"
    /\ steps < len_train
    /\ log' = Append(log, Event("train_step", epoch, NoLoss))
    /\ model' = [model EXCEPT !.updates = @ + 1]
    /\ optimizer' = [optimizer EXCEPT !.updates = @ + 1]
    /\ steps' = steps + 1
    /\ UNCHANGED <<pc, argv_load, args, cfg, len_train, len_val, checkpoint, ckpt_reads,
                   grad_enabled, resume_from_epoch, min_val_loss, min_val_loss0,
                   epoch, val_sum, vsteps, val_loss, net>>

ShouldValidate_off_by_one(e) == (e + 1) % cfg.val_freq = 0

ShouldValidate(e) == e % cfg.val_freq = 0

\* The minibatch loop is exhausted (its else clause), then line 51.
EpochDone ==
    /\ pc = "for_steps"
    /\ steps = len_train
    /\ IF ShouldValidate(epoch)
         THEN /\ model' = [model EXCEPT !.mode = "eval"]
              /\ pc' = "val"
              /\ UNCHANGED epoch
         ELSE /\ epoch' = epoch + 1
              /\ pc' = "for_epoch"
              /\ UNCHANGED model
    /\ UNCHANGED <<argv_load, args, cfg, len_train, len_val, checkpoint, ckpt_reads,
                   optimizer, grad_enabled, resume_from_epoch, min_val_loss,
                   min_val_loss0, steps, val_sum, vsteps, val_loss, log, net>>

ShouldSave_leq(loss, least) == RatLeq(loss, least)

ShouldSave(loss, least) == RatLess(loss, least)

NewMinValLoss_stale(loss, least) == least

NewMinValLoss(loss, least) == loss

\* train() after val() returned: lines 55-61, and the next epoch.
AfterVal ==
    /\ pc = "val_returned"
    /\ model' = [model EXCEPT !.mode = "train"]
    /\ IF ShouldSave(val_loss, min_val_loss)
         THEN /\ log' = Append(log, [Event("save_val_model", epoch, val_loss)
                                        EXCEPT !.mode = "train"])
              /\ min_val_loss' = NewMinValLoss(val_loss, min_val_loss)
         ELSE /\ log' = Append(log, [Event("skipped_saving", epoch, val_loss)
                                        EXCEPT !.mode = "train"])
              /\ UNCHANGED min_val_loss
    /\ epoch' = epoch + 1
    /\ pc' = "for_epoch"
    /\ UNCHANGED <<argv_load, args, cfg, len_train, len_val, checkpoint, ckpt_reads,
                   optimizer, grad_enabled, resume_from_epoch, min_val_loss0,
                   steps, val_sum, vsteps, val_loss, net>>

\* The else clause of the epoch loop: save_end_model, and train() returns.
SaveEndModel ==
    /\ pc = "for_else"
    /\ log' = Append(log, Event("save_end_model", epoch, NoLoss))
    /\ pc' = "done"
    /\ UNCHANGED <<argv_load, args, cfg, len_train, len_val, checkpoint, ckpt_reads,
                   model, optimizer, grad_enabled, resume_from_epoch, min_val_loss,
                   min_val_loss0, epoch, steps, val_sum, vsteps, val_loss, net>>

(***************************************************************************)
(* val (main.py 67-91)                                                     *)
(***************************************************************************)

ValEnter ==
    /\ pc = "val"
    /\ model' = [model EXCEPT !.mode = "eval"]
    /\ val_sum' = 0
    /\ vsteps' = 0
    /\ log' = Append(log, [Event("val_enter", epoch, NoLoss) EXCEPT !.mode = "eval"])
    /\ pc' = "val_loop"
    /\ UNCHANGED <<argv_load, args, cfg, len_train, len_val, checkpoint, ckpt_reads,
                   optimizer, grad_enabled, resume_from_epoch, min_val_loss,
                   min_val_loss0, epoch, steps, val_loss, net>>

\* One minibatch of the validation set: forward and criterion only.
ValStep ==
    /\ pc = "val_loop"
    /\ vsteps < len_val
    /\ \E loss \in BatchLosses :
          /\ val_sum' = val_sum + loss
          /\ log' = Append(log, Event("val_forward", epoch, NoLoss))
    /\ vsteps' = vsteps + 1
    /\ UNCHANGED <<pc, argv_load, args, cfg, len_train, len_val, checkpoint, ckpt_reads,
                   model, optimizer, grad_enabled, resume_from_epoch, min_val_loss,
                   min_val_loss0, epoch, steps, val_loss, net>>

ValReturn_no_train ==
    /\ pc = "val_loop"
    /\ vsteps = len_val
    /\ val_loss' = <<val_sum, len_val>>
    /\ log' = Append(log, Event("val_return", epoch, <<val_sum, len_val>>))
    /\ pc' = "val_returned"
    /\ UNCHANGED <<argv_load, args, cfg, len_train, len_val, checkpoint, ckpt_reads,
                   model, optimizer, grad_enabled, resume_from_epoch, min_val_loss,
                   min_val_loss0, epoch, steps, val_sum, vsteps, net>>

\* The else clause of val()'s loop: the mean, model.train(), return.
ValReturn ==
    /\ pc = "val_loop"
    /\ vsteps = len_val
    /\ val_loss' = <<val_sum, len_val>>
    /\ model' = [model EXCEPT !.mode = "train"]
    /\ log' = Append(log, [Event("val_return", epoch, <<val_sum, len_val>>)
                              EXCEPT !.mode = "train"])
    /\ pc' = "val_returned"
    /\ UNCHANGED <<argv_load, args, cfg, len_train, len_val, checkpoint, ckpt_reads,
                   optimizer, grad_enabled, resume_from_epoch, min_val_loss,
                   min_val_loss0, epoch, steps, val_sum, vsteps, net>>

(***************************************************************************)
(* test (main.py 95-108)                                                   *)
(***************************************************************************)

TestEnter ==
    /\ pc = "test"
    /\ model' = [model EXCEPT !.mode = "eval"]
    /\ pc' = "test_forward"
    /\ UNCHANGED <<argv_load, args, cfg, len_train, len_val, checkpoint, ckpt_reads,
                   optimizer, grad_enabled, resume_from_epoch, min_val_loss,
                   min_val_loss0, epoch, steps, val_sum, vsteps, val_loss, log, net>>

TestForward ==
    /\ pc = "test_forward"
    /\ log' = Append(log, Event("test_forward", 0, NoLoss))
    /\ pc' = "test_return"
    /\ UNCHANGED <<argv_load, args, cfg, len_train, len_val, checkpoint, ckpt_reads,
                   model, optimizer, grad_enabled, resume_from_epoch, min_val_loss,
                   min_val_loss0, epoch, steps, val_sum, vsteps, val_loss, net>>

TestReturn ==
    /\ pc = "test_return"
    /\ model' = [model EXCEPT !.mode = "train"]
    /\ log' = Append(log, [Event("test_return", 0, NoLoss) EXCEPT !.mode = "train"])
    /\ pc' = "done"
    /\ UNCHANGED <<argv_load, args, cfg, len_train, len_val, checkpoint, ckpt_reads,
                   optimizer, grad_enabled, resume_from_epoch, min_val_loss,
                   min_val_loss0, epoch, steps, val_sum, vsteps, val_loss, net>>

(***************************************************************************)
(* The program.                                                            *)
(***************************************************************************)

Checkpoints ==
    {NoFile} \cup
    {[exists |-> TRUE, epoch |-> e, val_loss |-> l] :
        e \in 0..MaxEpochs, l \in CheckpointLosses}

Configs ==
    [n_epochs : 0..MaxEpochs, val_freq : 1..MaxValFreq,
     resume_from_epoch : {0}, min_val_loss : {Rat(DefaultMinValLoss)}]

Init ==
    /\ pc = "start"
    /\ argv_load = FALSE
    /\ args = [load |-> FALSE, phase |-> "train"]
    /\ cfg \in Configs
    /\ len_train \in 1..MaxBatches
    /\ len_val \in 1..MaxBatches
    /\ checkpoint \in Checkpoints
    /\ ckpt_reads = 0
    /\ model = [origin |-> "arch", updates |-> 0, mode |-> "train"]
    /\ optimizer = [origin |-> "arch", updates |-> 0]
    /\ grad_enabled = TRUE
    /\ resume_from_epoch = 0
    /\ min_val_loss = NoLoss
    /\ min_val_loss0 = NoLoss
    /\ epoch = 0
    /\ steps = 0
    /\ val_sum = 0
    /\ vsteps = 0
    /\ val_loss = NoLoss
    /\ log = <<>>
    /\ net = NetIdle

Next ==
    \/ ParseArgs
    \/ LoadConfig
    \/ LoadCheckpoint
    \/ Dispatch
    \/ TrainEnter
    \/ ForEpoch
    \/ TrainStep
    \/ EpochDone
    \/ ValEnter
    \/ ValStep
    \/ ValReturn
    \/ AfterVal
    \/ SaveEndModel
    \/ TestEnter
    \/ TestForward
    \/ TestReturn

Spec == Init /\ [][Next]_vars


(***************************************************************************)
(* models/UNet.py: tensors are modelled by their shapes.                   *)
(*   a tensor:  [ok |-> TRUE, name, n, c, h, w]                            *)
(*   a raise:   [ok |-> FALSE, layer, h, w, dc_in]   (layer that raised,   *)
(*              the size it was given, and the size given to the double    *)
(*              convolution block it is part of, <<>> if it is in none)    *)
(***************************************************************************)
Tensor(name, n, c, h, w) == [ok |-> TRUE, name |-> name, n |-> n, c |-> c, h |-> h, w |-> w]

Raise(layer, t) == [ok |-> FALSE, layer |-> layer, h |-> t.h, w |-> t.w, dc_in |-> <<>>]

Unset == [ok |-> FALSE, layer |-> "unset", h |-> 0, w |-> 0, dc_in |-> <<>>]

BatchSizes == {1, 2}

ClassCounts == {1, 2}

\* nn.Conv2d(in_channels, out_channels, kernel_size): no padding, stride 1.
Conv2d_same(x, in_channels, out_channels, kernel_size) ==
    IF ~x.ok THEN x
    ELSE IF x.c # in_channels THEN Raise("conv", x)
    ELSE [x EXCEPT !.c = out_channels]

Conv2d(x, in_channels, out_channels, kernel_size) ==
    IF ~x.ok THEN x
    ELSE IF x.c # in_channels \/ x.h < kernel_size \/ x.w < kernel_size
           THEN Raise("conv", x)
    ELSE [x EXCEPT !.c = out_channels,
                   !.h = @ - kernel_size + 1,
                   !.w = @ - kernel_size + 1]

\* nn.MaxPool2d(kernel_size, stride): floor mode, an empty output raises.
MaxPool2d(x, kernel_size, stride) ==
    IF ~x.ok THEN x
    ELSE IF x.h < kernel_size \/ x.w < kernel_size THEN Raise("pool", x)
    ELSE [x EXCEPT !.h = (@ - kernel_size) \div stride + 1,
                   !.w = (@ - kernel_size) \div stride + 1]

\* nn.ConvTranspose2d(in_channels, out_channels, kernel_size, stride).
ConvTranspose2d(x, in_channels, out_channels, kernel_size, stride) ==
    IF ~x.ok THEN x
    ELSE IF x.c # in_channels THEN Raise("conv_transpose", x)
    ELSE [x EXCEPT !.c = out_channels,
                   !.h = (@ - 1) * stride + kernel_size,
                   !.w = (@ - 1) * stride + kernel_size]

\* F.interpolate(x, size, mode='bilinear'): the result has the spatial size asked for.
Interpolate(x, size) ==
    IF ~x.ok THEN x
    ELSE IF size[1] < 1 \/ size[2] < 1 THEN Raise("interpolate", x)
    ELSE [x EXCEPT !.h = size[1], !.w = size[2]]

\* torch.cat([a, b], 1): all dimensions but the channels must agree.
Cat(a, b) ==
    IF ~a.ok THEN a
    ELSE IF ~b.ok THEN b
    ELSE IF a.n # b.n \/ a.h # b.h \/ a.w # b.w THEN Raise("cat", b)
    ELSE [a EXCEPT !.name = "cat", !.c = a.c + b.c]

Size(t) == <<t.h, t.w>>

\* _DoubleConvBlock.forward (the activations keep the shape).
DoubleConvBlock(x, blk) ==
    LET y == Conv2d(Conv2d(x, blk.in_channels, blk.out_channels, blk.kernel_size),
                    blk.out_channels, blk.out_channels, blk.kernel_size)
    IN IF x.ok /\ ~y.ok THEN [y EXCEPT !.dc_in = Size(x)] ELSE y

\* _EncoderBlock.forward (drop_p = 0: no dropout).
EncoderBlock(x, blk) ==
    LET y == MaxPool2d(DoubleConvBlock(x, [in_channels |-> blk.in_channels,
                                           out_channels |-> blk.out_channels,
                                           kernel_size |-> 3]), 2, 2)
    IN IF y.ok THEN [y EXCEPT !.name = blk.name] ELSE y

\* _DecoderBlock.forward
DecoderBlock(x, blk) ==
    LET y == ConvTranspose2d(DoubleConvBlock(x, [in_channels |-> blk.in_channels,
                                                 out_channels |-> blk.mid_channels,
                                                 kernel_size |-> 3]),
                             blk.mid_channels, blk.out_channels, 2, 2)
    IN IF y.ok THEN [y EXCEPT !.name = blk.name] ELSE y

Enc(name, i, o) == [name |-> name, in_channels |-> i, out_channels |-> o]

Dec(name, i, m, o) == [name |-> name, in_channels |-> i, mid_channels |-> m, out_channels |-> o]

\* UNet.__init__: the blocks and their channel counts.
UNet(n_classes) ==
    [input  |-> Enc("input", 3, 64),
     enc1   |-> Enc("enc1", 64, 128),
     enc2   |-> Enc("enc2", 128, 256),
     enc3   |-> Enc("enc3", 256, 512),
     center |-> Dec("center", 512, 1024, 512),
     dec3   |-> Dec("dec3", 1024, 512, 256),
     dec2   |-> Dec("dec2", 512, 256, 128),
     dec1   |-> Dec("dec1", 256, 128, 64),
     final  |-> [name |-> "final", in_channels |-> 128, out_channels |-> 64, kernel_size |-> 3],
     output |-> [name |-> "output", in_channels |-> 64, out_channels |-> n_classes,
                 kernel_size |-> 1]]

\* The operands of a torch.cat of forward, and the block its result is given to.
Skip(a, b, blk) ==
    [left |-> a.name, right |-> b.name, left_c |-> a.c, right_c |-> b.c,
     left_size |-> Size(a), right_size |-> Size(b),
     into |-> blk.name, in_channels |-> blk.in_channels]

\* A statement of forward: the value is bound, or the call is left by the raise.
Bind(field, value, next) ==
    IF value.ok
      THEN net' = [net EXCEPT ![field] = value, !.pc = next]
      ELSE net' = [net EXCEPT !.error = value, !.pc = "raised"]

\* A statement of forward that concatenates a and b and gives the result to blk.
BindCat(field, a, b, blk, value, next) ==
    IF value.ok
      THEN net' = [net EXCEPT ![field] = value, !.pc = next,
                              !.cats = Append(@, Skip(a, b, blk))]
      ELSE net' = [net EXCEPT !.error = value, !.pc = "raised",
                              !.cats = Append(@, Skip(a, b, blk))]

FwdInput ==
    /\ net.pc = "input"
    /\ Bind("inp", EncoderBlock(net.x, net.unet.input), "enc1")
    /\ UNCHANGED progVars

FwdEnc1 ==
    /\ net.pc = "enc1"
    /\ Bind("enc1", EncoderBlock(net.inp, net.unet.enc1), "enc2")
    /\ UNCHANGED progVars

FwdEnc2 ==
    /\ net.pc = "enc2"
    /\ Bind("enc2", EncoderBlock(net.enc1, net.unet.enc2), "enc3")
    /\ UNCHANGED progVars

FwdEnc3 ==
    /\ net.pc = "enc3"
    /\ Bind("enc3", EncoderBlock(net.enc2, net.unet.enc3), "center")
    /\ UNCHANGED progVars

FwdCenter ==
    /\ net.pc = "center"
    /\ Bind("center", DecoderBlock(net.enc3, net.unet.center), "crop1")
    /\ UNCHANGED progVars

FwdCrop1 ==
    /\ net.pc = "crop1"
    /\ Bind("crop1", Interpolate(net.enc3, Size(net.center)), "dec3")
    /\ UNCHANGED progVars

FwdDec3 ==
    /\ net.pc = "dec3"
    /\ BindCat("dec3", net.center, net.crop1, net.unet.dec3,
               DecoderBlock(Cat(net.center, net.crop1), net.unet.dec3), "crop2")
    /\ UNCHANGED progVars

FwdCrop2_enc1 ==
    /\ net.pc = "crop2"
    /\ Bind("crop2", Interpolate(net.enc1, Size(net.dec3)), "dec2")
    /\ UNCHANGED progVars

FwdCrop2 ==
    /\ net.pc = "crop2"
    /\ Bind("crop2", Interpolate(net.enc2, Size(net.dec3)), "dec2")
    /\ UNCHANGED progVars

FwdDec2 ==
    /\ net.pc = "dec2"
    /\ BindCat("dec2", net.dec3, net.crop2, net.unet.dec2,
               DecoderBlock(Cat(net.dec3, net.crop2), net.unet.dec2), "crop3")
    /\ UNCHANGED progVars

FwdCrop3 ==
    /\ net.pc = "crop3"
    /\ Bind("crop3", Interpolate(net.enc1, Size(net.dec2)), "dec1")
    /\ UNCHANGED progVars

FwdDec1 ==
    /\ net.pc = "dec1"
    /\ BindCat("dec1", net.dec2, net.crop3, net.unet.dec1,
               DecoderBlock(Cat(net.dec2, net.crop3), net.unet.dec1), "crop4")
    /\ UNCHANGED progVars

FwdCrop4 ==
    /\ net.pc = "crop4"
    /\ Bind("crop4", Interpolate(net.inp, Size(net.dec1)), "final")
    /\ UNCHANGED progVars

FwdFinal ==
    /\ net.pc = "final"
    /\ BindCat("fin", net.dec1, net.crop4, net.unet.final,
               DoubleConvBlock(Cat(net.dec1, net.crop4), net.unet.final), "output")
    /\ UNCHANGED progVars

FwdOutput ==
    /\ net.pc = "output"
    /\ Bind("out", Conv2d(net.fin, net.unet.output.in_channels,
                          net.unet.output.out_channels, net.unet.output.kernel_size),
            "upsample")
    /\ UNCHANGED progVars

FwdUpsample_none ==
    /\ net.pc = "upsample"
    /\ Bind("out_upsampled", net.out, "returned")
    /\ UNCHANGED progVars

FwdUpsample ==
    /\ net.pc = "upsample"
    /\ Bind("out_upsampled", Interpolate(net.out, Size(net.x)), "returned")
    /\ UNCHANGED progVars

\* UNet.forward as one function of the input: a raise of a statement is the result.
Forward(x, unet) ==
    LET inp    == EncoderBlock(x, unet.input)
        enc1_  == EncoderBlock(inp, unet.enc1)
        enc2_  == EncoderBlock(enc1_, unet.enc2)
        enc3_  == EncoderBlock(enc2_, unet.enc3)
        center == DecoderBlock(enc3_, unet.center)
        crop1  == Interpolate(enc3_, Size(center))
        dec3_  == DecoderBlock(Cat(center, crop1), unet.dec3)
        crop2  == Interpolate(enc2_, Size(dec3_))
        dec2_  == DecoderBlock(Cat(dec3_, crop2), unet.dec2)
        crop3  == Interpolate(enc1_, Size(dec2_))
        dec1_  == DecoderBlock(Cat(dec2_, crop3), unet.dec1)
        crop4  == Interpolate(inp, Size(dec1_))
        fin    == DoubleConvBlock(Cat(dec1_, crop4), unet.final)
        out    == Conv2d(fin, unet.output.in_channels, unet.output.out_channels,
                         unet.output.kernel_size)
    IN Interpolate(out, Size(x))

InitNet ==
    /\ pc = "forward"
    /\ argv_load = FALSE
    /\ args = [load |-> FALSE, phase |-> "test"]
    /\ cfg = [n_epochs |-> 0, val_freq |-> 1, resume_from_epoch |-> 0,
              min_val_loss |-> Rat(DefaultMinValLoss)]
    /\ len_train = 1
    /\ len_val = 1
    /\ checkpoint = NoFile
    /\ ckpt_reads = 0
    /\ model = [origin |-> "arch", updates |-> 0, mode |-> "eval"]
    /\ optimizer = [origin |-> "arch", updates |-> 0]
    /\ grad_enabled = TRUE
    /\ resume_from_epoch = 0
    /\ min_val_loss = NoLoss
    /\ min_val_loss0 = NoLoss
    /\ epoch = 0
    /\ steps = 0
    /\ val_sum = 0
    /\ vsteps = 0
    /\ val_loss = NoLoss
    /\ log = <<>>
    /\ \E n \in BatchSizes, k \in ClassCounts, h \in 1..MaxSide, w \in 1..MaxSide :
          net = [pc |-> "input", unet |-> UNet(k), n_classes |-> k,
                 x |-> Tensor("x", n, 3, h, w),
                 inp |-> Unset, enc1 |-> Unset, enc2 |-> Unset, enc3 |-> Unset,
                 center |-> Unset, crop1 |-> Unset, dec3 |-> Unset, crop2 |-> Unset,
                 dec2 |-> Unset, crop3 |-> Unset, dec1 |-> Unset, crop4 |-> Unset,
                 fin |-> Unset, out |-> Unset, out_upsampled |-> Unset,
                 cats |-> <<>>, error |-> Unset]

NextNet ==
    \/ FwdInput
    \/ FwdEnc1
    \/ FwdEnc2
    \/ FwdEnc3
    \/ FwdCenter
    \/ FwdCrop1
    \/ FwdDec3
    \/ FwdCrop2
    \/ FwdDec2
    \/ FwdCrop3
    \/ FwdDec1
    \/ FwdCrop4
    \/ FwdFinal
    \/ FwdOutput
    \/ FwdUpsample

SpecNet == InitNet /\ [][NextNet]_vars

(***************************************************************************)
(* Helpers for the properties of the program.                              *)
(***************************************************************************)

Indices(op) == {i \in 1..Len(log) : log[i].op = op}

\* train() has been entered through __main__ (min_val_loss0 is its parameter).
InTrain == args.phase = "train" /\ pc \in {"train", "for_epoch", "for_steps", "val",
                                           "val_loop", "val_returned", "for_else", "done"}

TrainDone == args.phase = "train" /\ pc = "done"

\* The least element of a non-empty finite set of rationals.
Least(S) == CHOOSE x \in S : \A y \in S : RatLeq(x, y)

\* The validation losses returned at log positions below i.
LossesBefore(i) == {log[j].loss : j \in {k \in Indices("val_return") : k < i}}

IsDecision(i) == log[i].op \in {"save_val_model", "skipped_saving"}

\* The log filtered to the operations in ops, as <<op, epoch>> pairs.
RECURSIVE Filtered(_, _)
Filtered(s, ops) ==
    IF s = <<>> THEN <<>>
    ELSE LET rest == Filtered(Tail(s), ops)
         IN IF Head(s).op \in ops THEN <<<<Head(s).op, Head(s).epoch>>>> \o rest ELSE rest

Repeat(x, n) == [i \in 1..n |-> x]

\* The training and validation passes a run from epoch e on is to make.
RECURSIVE Schedule(_)
Schedule(e) ==
    IF e >= cfg.n_epochs THEN <<>>
    ELSE Repeat(<<"train_step", e>>, len_train)
         \o (IF e % cfg.val_freq = 0 THEN <<<<"val_enter", e>>>> ELSE <<>>)
         \o Schedule(e + 1)

IsPrefix(s, t) == Len(s) <= Len(t) /\ \A i \in 1..Len(s) : s[i] = t[i]

(***************************************************************************)
(* C1: after each validation pass train() saves a validation checkpoint,   *)
(* with the current epoch and val_loss, iff val_loss is strictly less than *)
(* the current min_val_loss; min_val_loss is always the least of its       *)
(* initial value and the validation losses handled so far (so it never     *)
(* increases).                                                             *)
(***************************************************************************)
C1_SaveIffStrictlyLess ==
    InTrain =>
      /\ \A i \in Indices("val_return") :
            i < Len(log) =>
              /\ IsDecision(i + 1)
              /\ log[i + 1].epoch = log[i].epoch
              /\ log[i + 1].loss = log[i].loss
              /\ log[i + 1].op = "save_val_model"
                   <=> RatLess(log[i].loss, Least({min_val_loss0} \cup LossesBefore(i)))
      /\ \A i \in 1..Len(log) : IsDecision(i) => i > 1 /\ log[i - 1].op = "val_return"
      /\ LET handled == IF pc = "val_returned" THEN Len(log) ELSE Len(log) + 1
         IN RatEq(min_val_loss, Least({min_val_loss0} \cup LossesBefore(handled)))

C1_Witness ==
    /\ TrainDone
    /\ Cardinality(Indices("save_val_model")) >= 2
    /\ Indices("skipped_saving") # {}
    /\ \E i \in Indices("skipped_saving") : RatEq(log[i].loss, min_val_loss)

(***************************************************************************)
(* C2 as stated: when train() completes after at least one validation      *)
(* pass, save_val_model was called and its last call carries the least     *)
(* validation loss of the run, whatever the initial min_val_loss.          *)
(***************************************************************************)
C2_BestAlwaysSaved ==
    (TrainDone /\ Indices("val_return") # {}) =>
      /\ Indices("save_val_model") # {}
      /\ \A i \in Indices("save_val_model") :
            (\A j \in Indices("save_val_model") : j <= i)
              => RatEq(log[i].loss, Least(LossesBefore(Len(log) + 1)))

(***************************************************************************)
(* C2 amended: when train() completes, save_val_model was called iff some  *)
(* validation loss of the run is strictly less than the initial            *)
(* min_val_loss, and then its last call carries the least validation loss  *)
(* of the run.                                                             *)
(***************************************************************************)
C2_BestSavedIfImproved ==
    TrainDone =>
      LET losses == LossesBefore(Len(log) + 1)
          saves == Indices("save_val_model")
      IN /\ saves # {} <=> \E l \in losses : RatLess(l, min_val_loss0)
         /\ \A i \in saves :
               (\A j \in saves : j <= i) => RatEq(log[i].loss, Least(losses))

C2_Witness ==
    /\ TrainDone
    /\ Cardinality(Indices("save_val_model")) >= 2
    /\ \E i \in Indices("skipped_saving") : \A j \in Indices("save_val_model") : j < i
    /\ \E l \in LossesBefore(Len(log) + 1) : ~RatLess(l, min_val_loss0)

(***************************************************************************)
(* C3: a call of train() that returns has called save_end_model exactly    *)
(* once, as its last operation, after every training step and validation   *)
(* pass; before it returns save_end_model has not been called.  This holds *)
(* also when resume_from_epoch >= n_epochs.                                *)
(***************************************************************************)
C3_EndModelSavedOnce ==
    InTrain =>
      IF pc = "done"
        THEN /\ Cardinality(Indices("save_end_model")) = 1
             /\ log[Len(log)].op = "save_end_model"
        ELSE Indices("save_end_model") = {}

C3_Witness ==
    /\ TrainDone
    /\ resume_from_epoch >= cfg.n_epochs
    /\ Len(log) = 1
    /\ log[1].op = "save_end_model"

(***************************************************************************)
(* C4: started at epoch r, train() trains every minibatch of the epochs    *)
(* r..n_epochs-1 in increasing order and validates exactly the epochs e of *)
(* that range with e % val_freq = 0, each after the last minibatch of e    *)
(* and before the first of e+1.                                            *)
(***************************************************************************)
C4_EpochSchedule ==
    InTrain =>
      LET done == Filtered(log, {"train_step", "val_enter"})
          plan == Schedule(resume_from_epoch)
      IN /\ IsPrefix(done, plan)
         /\ pc \in {"for_else", "done"} => done = plan

C4_Witness ==
    /\ TrainDone
    /\ resume_from_epoch = 1
    /\ cfg.n_epochs = 3
    /\ cfg.val_freq = 2
    /\ Filtered(log, {"val_enter"}) = <<<<"val_enter", 2>>>>

(***************************************************************************)
(* C5: every forward pass made in val() runs with gradient computation     *)
(* disabled, and val() leaves the model parameters and the optimizer state *)
(* as it found them.                                                       *)
(***************************************************************************)
C5_ValNoGradient ==
    /\ \A i \in Indices("val_forward") : log[i].grad = FALSE
    /\ \A i \in Indices("val_return") :
          \E j \in Indices("val_enter") :
             /\ j < i
             /\ log[j].epoch = log[i].epoch
             /\ log[j].params = log[i].params
             /\ log[j].opt = log[i].opt

(***************************************************************************)
(* C6: without --load no checkpoint file is read, model and optimizer      *)
(* keep their configured state and training starts from                    *)
(* cfg.resume_from_epoch with cfg.min_val_loss; with --load all four are   *)
(* taken from the checkpoint.                                              *)
(***************************************************************************)
C6_RestoreIsOptional ==
    pc \notin {"start", "config", "restore", "raised"} =>
      IF argv_load
        THEN /\ ckpt_reads = 1
             /\ model.origin = "checkpoint"
             /\ optimizer.origin = "checkpoint"
             /\ resume_from_epoch = checkpoint.epoch
             /\ min_val_loss0 = checkpoint.val_loss \/ pc = "dispatch"
        ELSE /\ ckpt_reads = 0
             /\ model.origin = "arch"
             /\ optimizer.origin = "arch"
             /\ resume_from_epoch = cfg.resume_from_epoch
             /\ min_val_loss0 = cfg.min_val_loss \/ pc = "dispatch"

(***************************************************************************)
(* C9: every training step runs with the model in training mode, every     *)
(* forward pass of val() and test() with the model in evaluation mode, and *)
(* the model is in training mode whenever val() or test() has returned.    *)
(***************************************************************************)
C9_ModeDiscipline ==
    /\ \A i \in Indices("train_step") : log[i].mode = "train"
    /\ \A i \in Indices("val_forward") \cup Indices("test_forward") : log[i].mode = "eval"
    /\ \A i \in Indices("val_return") \cup Indices("test_return") : log[i].mode = "train"
    /\ pc = "val_returned" => model.mode = "train"
    /\ pc = "for_steps" => model.mode = "train"
    /\ pc = "done" => model.mode = "train"

C9_Witness ==
    /\ TrainDone
    /\ \E i \in Indices("val_return") : \E j \in Indices("train_step") : i < j

(***************************************************************************)
(* Helpers for the properties of the network.                              *)
(***************************************************************************)

Returned == net.pc = "returned"

Raised == net.pc = "raised"

\* forward can be applied to a 3-channel image of height h and width w.
Admissible(h, w) == Forward(Tensor("x", 1, 3, h, w), UNet(1)).ok

\* The raise came from a convolution of a double convolution block that was
\* given a height or a width below 5.
RaisedInSmallDoubleConv ==
    /\ net.error.layer = "conv"
    /\ net.error.dc_in # <<>>
    /\ net.error.dc_in[1] < 5 \/ net.error.dc_in[2] < 5

\* The raise came from a 2x2 pool that was given a height or a width below 2.
RaisedInSmallPool ==
    /\ net.error.layer = "pool"
    /\ net.error.h < 2 \/ net.error.w < 2

(***************************************************************************)
(* C7: for an input of shape (N, 3, H, W) on which forward returns, the    *)
(* result has shape (N, n_classes, H, W).                                  *)
(***************************************************************************)
C7_OutputShape ==
    Returned =>
      /\ net.out_upsampled.n = net.x.n
      /\ net.out_upsampled.c = net.n_classes
      /\ net.out_upsampled.h = net.x.h
      /\ net.out_upsampled.w = net.x.w

C7_Witness ==
    /\ Returned
    /\ net.x.h % 2 = 1
    /\ net.x.w = MaxSide
    /\ net.enc3.w % 2 = 1
    /\ Size(net.out) # Size(net.x)
    /\ net.n_classes = 2

(***************************************************************************)
(* C8: at each of the four concatenations of forward the encoder feature   *)
(* map has been resized to the spatial size of the decoder feature map,    *)
(* the two channel counts add up to the in_channels of the block given the *)
(* result, and the pairs are center/enc3 (512+512=1024, dec3), dec3/enc2   *)
(* (256+256=512, dec2), dec2/enc1 (128+128=256, dec1) and dec1/input       *)
(* (64+64=128, final).                                                     *)
(***************************************************************************)
C8_SkipConnections ==
    net.pc # "idle" =>
      /\ \A i \in 1..Len(net.cats) :
            LET k == net.cats[i]
            IN /\ k.left_size = k.right_size
               /\ k.left_c + k.right_c = k.in_channels
               /\ <<k.left, k.right, k.left_c, k.right_c, k.in_channels, k.into>> =
                    CASE i = 1 -> <<"center", "enc3", 512, 512, 1024, "dec3">>
                      [] i = 2 -> <<"dec3", "enc2", 256, 256, 512, "dec2">>
                      [] i = 3 -> <<"dec2", "enc1", 128, 128, 256, "dec1">>
                      [] i = 4 -> <<"dec1", "input", 64, 64, 128, "final">>
      /\ Returned => Len(net.cats) = 4
      /\ Raised => net.error.layer \notin {"cat", "conv_transpose", "interpolate"}
      /\ Raised /\ net.error.layer = "conv" => net.error.dc_in # <<>>

C8_Witness ==
    /\ Returned
    /\ Len(net.cats) = 4
    /\ Size(net.enc3) # Size(net.center)
    /\ Size(net.inp) # Size(net.dec1)

(***************************************************************************)
(* C10 as stated: forward can be applied iff H >= 188 and W >= 188; when   *)
(* it cannot, some double convolution block is given a size below 5; the   *)
(* admissible sides are upward closed.                                     *)
(***************************************************************************)
C10_MinimumInputSize ==
    /\ Returned \/ Raised => (Returned <=> net.x.h >= 188 /\ net.x.w >= 188)
    /\ Raised => RaisedInSmallDoubleConv
    /\ Returned => Admissible(net.x.h + 1, net.x.w) /\ Admissible(net.x.h, net.x.w + 1)

(***************************************************************************)
(* C10 amended: forward can be applied iff H >= 188 and W >= 188; when it  *)
(* cannot, the call raises in a double convolution block that is given a   *)
(* size below 5 or in a 2x2 pool that is given a size below 2; the         *)
(* admissible sides are upward closed.                                     *)
(***************************************************************************)
C10_MinimumInputSizeOrPool ==
    /\ Returned \/ Raised => (Returned <=> net.x.h >= 188 /\ net.x.w >= 188)
    /\ Raised => RaisedInSmallDoubleConv \/ RaisedInSmallPool
    /\ Returned => Admissible(net.x.h + 1, net.x.w) /\ Admissible(net.x.h, net.x.w + 1)
    /\ net.pc = "input" => (Admissible(net.x.h, net.x.w) <=> net.x.h >= 188 /\ net.x.w >= 188)

C10_Witness ==
    /\ Raised
    /\ net.x.h = 187
    /\ net.x.w = 188
    /\ RaisedInSmallDoubleConv
    /\ net.dec3.ok

=============================================================================
